---- MODULE Spec2Model ----
(***************************************************************************)
(* Model of the weekly-competition results validator (validator.py; the    *)
(* same functions appear in sanitizer.py under sanitize_* names).          *)
(*                                                                         *)
(* A Python str is a sequence of one-character strings.  One element,      *)
(* LongDigits, stands for a whole run of 4301 digits '1': no code path     *)
(* looks at the length of a string, so the run behaves as one digit        *)
(* everywhere except in int(), where CPython (3.10.7 and later) refuses    *)
(* to convert more than 4300 digits and raises ValueError.                 *)
(***************************************************************************)
EXTENDS Integers, Sequences, FiniteSets, TLC

VARIABLES
    column,   \* the column name handed to the function under call
    cell,     \* the string handed to the function under call
    call,     \* the function that was called ("none" before the call)
    ret,      \* the tuple of values the call returned
    exc,      \* the exception the call let escape ("none" when it returned)
    parser,   \* the grammar validate_time ran ("none" when it ran none)
    first,    \* the result of the first pass, when the output is validated again
    script,   \* main: which script runs ("validator" or "sanitizer")
    headers,  \* main: the column names of results.csv
    rows,     \* main: the data rows of results.csv, each a sequence of cells
    pc,       \* main: position in main()
    idx,      \* main: index of the data row being processed
    col,      \* main: index of the column being processed
    ws,       \* main: the worksheet, <<row, column>> -> [value, fill]
    saved     \* main: the content of output.xlsx (<<>> while not saved)

callVars == <<column, cell, call, ret, exc, parser, first>>
mainVars == <<script, headers, rows, pc, idx, col, ws, saved>>
vars     == <<column, cell, call, ret, exc, parser, first, script, headers, rows, pc, idx, col, ws, saved>>

(***************************************************************************)
(* Characters                                                              *)
(***************************************************************************)
LongDigits == "1{4301}"

Whitespace == {" ", "\t", "\n"}

DigitSeq == <<"0", "1", "2", "3", "4", "5", "6", "7", "8", "9">>

DecimalDigits == {DigitSeq[i] : i \in 1..10}

Digits == DecimalDigits \cup {LongDigits}

DigitVal(c) == (CHOOSE i \in 1..10 : DigitSeq[i] = c) - 1

LowerSeq == <<"a", "b", "d", "e", "f", "h", "j", "n", "o", "x", "é">>

UpperSeq == <<"A", "B", "D", "E", "F", "H", "J", "N", "O", "X", "É">>

\* [A-Za-z]: every cased letter of the model except the accented pair
EnglishLetters == ({LowerSeq[i] : i \in 1..Len(LowerSeq)} \cup {UpperSeq[i] : i \in 1..Len(UpperSeq)}) \ {"é", "É"}

upper_char(c) ==
    IF \E i \in 1..Len(LowerSeq) : LowerSeq[i] = c
    THEN UpperSeq[CHOOSE i \in 1..Len(LowerSeq) : LowerSeq[i] = c]
    ELSE c

lower_char(c) ==
    IF \E i \in 1..Len(LowerSeq) : UpperSeq[i] = c
    THEN LowerSeq[CHOOSE i \in 1..Len(LowerSeq) : UpperSeq[i] = c]
    ELSE c

(***************************************************************************)
(* str methods and built-ins used by the validator                         *)
(***************************************************************************)
RECURSIVE lstrip(_)
lstrip(s) ==
    IF s # <<>> /\ Head(s) \in Whitespace THEN lstrip(Tail(s)) ELSE s

RECURSIVE rstrip(_)
rstrip(s) ==
    IF s # <<>> /\ s[Len(s)] \in Whitespace
    THEN rstrip(SubSeq(s, 1, Len(s) - 1))
    ELSE s

\* str.strip()
strip(s) == rstrip(lstrip(s))

\* str.upper()
upper(s) == [i \in 1..Len(s) |-> upper_char(s[i])]

\* str.capitalize(): first character upper-cased, the rest lower-cased
capitalize(s) == [i \in 1..Len(s) |-> IF i = 1 THEN upper_char(s[i]) ELSE lower_char(s[i])]

\* x in s, for a one-character x
contains(s, c) == \E i \in 1..Len(s) : s[i] = c

\* str.split(sep), for a one-character sep: always at least one piece
RECURSIVE split(_, _)
split(s, sep) ==
    IF ~contains(s, sep) THEN <<s>>
    ELSE LET i == CHOOSE k \in 1..Len(s) : s[k] = sep /\ \A j \in 1..(k - 1) : s[j] # sep
         IN  <<SubSeq(s, 1, i - 1)>> \o split(SubSeq(s, i + 1, Len(s)), sep)

\* str.split() without arguments: runs of whitespace separate, no empty piece
RECURSIVE split_ws(_)
split_ws(s) ==
    LET t == lstrip(s) IN
    IF t = <<>> THEN <<>>
    ELSE LET n == IF \E k \in 1..Len(t) : t[k] \in Whitespace
                  THEN (CHOOSE k \in 1..Len(t) :
                           t[k] \in Whitespace /\ \A j \in 1..(k - 1) : t[j] \notin Whitespace) - 1
                  ELSE Len(t)
         IN  <<SubSeq(t, 1, n)>> \o split_ws(SubSeq(t, n + 1, Len(t)))

\* sep.join(tokens)
RECURSIVE join(_, _)
join(tokens, sep) ==
    IF tokens = <<>> THEN <<>>
    ELSE IF Len(tokens) = 1 THEN tokens[1]
    ELSE tokens[1] \o sep \o join(Tail(tokens), sep)

\* str.isdigit()
isdigit(s) == s # <<>> /\ \A i \in 1..Len(s) : s[i] \in Digits

RECURSIVE digits_value(_)
digits_value(s) ==
    IF s = <<>> THEN 0 ELSE 10 * digits_value(SubSeq(s, 1, Len(s) - 1)) + DigitVal(s[Len(s)])

\* int() on an already stripped string with its sign taken off
int_unsigned(negative, d) ==
    IF ~isdigit(d) \/ contains(d, LongDigits)
    THEN [err |-> TRUE, val |-> 0]
    ELSE [err |-> FALSE, val |-> IF negative THEN 0 - digits_value(d) ELSE digits_value(d)]

int_stripped(t) ==
    IF t # <<>> /\ t[1] \in {"+", "-"}
    THEN int_unsigned(t[1] = "-", Tail(t))
    ELSE int_unsigned(FALSE, t)

\* int(s): surrounding whitespace and one sign are allowed; anything else
\* that is not a digit string, and a digit string over the conversion
\* limit, raises ValueError (err).
int(s) == int_stripped(strip(s))

(***************************************************************************)
(* The validator                                                           *)
(***************************************************************************)
NAME_KEY == "Name"

TIMESTAMP_KEY == "חותמת זמן"

\* Outcome of a call: what it returned, or the exception it let escape
\* (ret is then a placeholder).
Return(v) == [exc |-> "none", ret |-> v]

Raise(e, v) == [exc |-> e, ret |-> v]

\* Outcome of the dispatcher: parser is the grammar the call ran ("none"
\* when it returned before selecting one).
Dispatched(r, p) == [exc |-> r.exc, ret |-> r.ret, parser |-> p]

\* re.match(r"^[A-Za-z\s]*$", text)
is_english(text) == \A i \in 1..Len(text) : text[i] \in EnglishLetters \cup Whitespace

\* [word.capitalize() for word in words]
capitalize_all(words) == [i \in 1..Len(words) |-> capitalize(words[i])]

\* name_result accepting a single token
name_result_one_token(stripped_string, name_tokens) ==
    IF ~is_english(stripped_string) THEN <<stripped_string, FALSE>>
    ELSE IF Len(name_tokens) < 1 THEN <<stripped_string, FALSE>>
    ELSE <<join(name_tokens, <<" ">>), TRUE>>

\* name_result joining the tokens without the space
name_result_unspaced(stripped_string, name_tokens) ==
    IF ~is_english(stripped_string) THEN <<stripped_string, FALSE>>
    ELSE IF Len(name_tokens) < 2 THEN <<stripped_string, FALSE>>
    ELSE <<join(name_tokens, <<>>), TRUE>>

\* Lines 43-49, on the stripped string and its capitalized tokens
name_result(stripped_string, name_tokens) ==
    IF ~is_english(stripped_string) THEN <<stripped_string, FALSE>>
    ELSE IF Len(name_tokens) < 2 THEN <<stripped_string, FALSE>>
    ELSE <<join(name_tokens, <<" ">>), TRUE>>

name_stripped(stripped_string) ==
    name_result(stripped_string, capitalize_all(split_ws(stripped_string)))

validate_name(raw_name) == name_stripped(strip(raw_name))

\* Line 84 of is_time_duration, on the three converted fields; a
\* ValueError of int() is caught by the except clause and gives False.
range_check(m, s, ms) ==
    IF m.err \/ s.err \/ ms.err THEN FALSE
    ELSE /\ 0 <= m.val /\ m.val < 60
         /\ 0 <= s.val /\ s.val < 60
         /\ 0 <= ms.val /\ ms.val < 100

\* Lines 80-84 of is_time_duration
duration_in_range(minutes, seconds, milliseconds) ==
    range_check(int(minutes), int(seconds), int(milliseconds))

\* Lines 72-73: seconds is cut at its first "." before milliseconds is
\* looked for in it.
colon_form(minutes, after_colon) ==
    duration_in_range(minutes,
                      split(after_colon, ".")[1],
                      IF contains(split(after_colon, ".")[1], ".")
                      THEN split(split(after_colon, ".")[1], ".")[2]
                      ELSE <<"0", "0">>)

\* x, y = parts: unpacking anything but two pieces raises ValueError,
\* which the except clause turns into False.
unpack_colon(parts) ==
    IF Len(parts) # 2 THEN FALSE ELSE colon_form(parts[1], parts[2])

unpack_dot(parts) ==
    IF Len(parts) # 2 THEN FALSE ELSE duration_in_range(parts[1], <<"0", "0">>, parts[2])

is_time_duration(raw_time) ==
    IF raw_time = <<>> THEN TRUE
    ELSE IF ~contains(raw_time, ".") THEN FALSE
    ELSE IF contains(raw_time, ":") THEN unpack_colon(split(raw_time, ":"))
    ELSE unpack_dot(split(raw_time, "."))

\* Length of the longest prefix of s made of characters of class cls
RECURSIVE run_length(_, _)
run_length(s, cls) ==
    IF s # <<>> /\ Head(s) \in cls THEN 1 + run_length(Tail(s), cls) ELSE 0

\* Length of the longest prefix of s without whitespace
RECURSIVE nonspace_length(_)
nonspace_length(s) ==
    IF s # <<>> /\ Head(s) \notin Whitespace THEN 1 + nonspace_length(Tail(s)) ELSE 0

NoMatch == [matched |-> FALSE, g1 |-> <<>>, g2 |-> <<>>, g3 |-> <<>>]

\* (\S+)$ on what follows the blank; "$" also matches just before a
\* newline that ends the string
match_time(g1, g2, r, n) ==
    IF n >= 1 /\ SubSeq(r, n + 1, Len(r)) \in {<<>>, <<"\n">>}
    THEN [matched |-> TRUE, g1 |-> g1, g2 |-> g2, g3 |-> SubSeq(r, 1, n)]
    ELSE NoMatch

\* (\d+) and the blank, on what follows the "/"
match_total(g1, r, n) ==
    IF n >= 1 /\ Len(r) > n /\ r[n + 1] = " "
    THEN match_time(g1, SubSeq(r, 1, n), SubSeq(r, n + 2, Len(r)),
                    nonspace_length(SubSeq(r, n + 2, Len(r))))
    ELSE NoMatch

\* ^(\d+)/
match_solved(s, n) ==
    IF n >= 1 /\ Len(s) > n /\ s[n + 1] = "/"
    THEN match_total(SubSeq(s, 1, n), SubSeq(s, n + 2, Len(s)),
                     run_length(SubSeq(s, n + 2, Len(s)), Digits))
    ELSE NoMatch

\* re.match(r"^(\d+)/(\d+) (\S+)$", input_str): the three groups, or no match
multiblind_match(input_str) == match_solved(input_str, run_length(input_str, Digits))

\* Lines 109-116, on a match; the int() calls are outside any try block
multiblind_checks(solved, total, timestamp) ==
    IF solved.err \/ total.err THEN Raise("ValueError", FALSE)
    ELSE IF solved.val > total.val THEN Return(FALSE)
    ELSE Return(is_time_duration(timestamp))

multiblind_on_match(match) ==
    IF ~match.matched THEN Return(FALSE)
    ELSE multiblind_checks(int(match.g1), int(match.g2), match.g3)

is_multiblind_result(input_str) == multiblind_on_match(multiblind_match(input_str))

is_fmc_result(input_str) == isdigit(input_str)

\* event_result_validators.get(event, is_time_duration)
result_parser(event) ==
    IF event = "Multiblind" THEN "is_multiblind_result"
    ELSE IF event = "FMC" THEN "is_fmc_result"
    ELSE "is_time_duration"

\* result_parser(stripped_string)
run_parser(p, stripped_string) ==
    IF p = "is_multiblind_result" THEN is_multiblind_result(stripped_string)
    ELSE IF p = "is_fmc_result" THEN Return(is_fmc_result(stripped_string))
    ELSE Return(is_time_duration(stripped_string))

\* Lines 139-141
flag_result(stripped_string, p, r) ==
    IF r.exc # "none" THEN Dispatched(Raise(r.exc, <<<<>>, FALSE>>), p)
    ELSE IF ~r.ret THEN Dispatched(Return(<<stripped_string, FALSE>>), p)
    ELSE Dispatched(Return(<<stripped_string, TRUE>>), p)

\* validate_stripped without the test for the empty string
validate_stripped_no_empty_test(event, stripped_string) ==
    IF upper(stripped_string) = <<"D", "N", "F">>
    THEN Dispatched(Return(<<<<"D", "N", "F">>, TRUE>>), "none")
    ELSE flag_result(stripped_string, result_parser(event),
                     run_parser(result_parser(event), stripped_string))

\* validate_stripped comparing with "DNF" without upper()
validate_stripped_exact_dnf(event, stripped_string) ==
    IF stripped_string = <<>> THEN Dispatched(Return(<<<<>>, TRUE>>), "none")
    ELSE IF stripped_string = <<"D", "N", "F">>
    THEN Dispatched(Return(<<<<"D", "N", "F">>, TRUE>>), "none")
    ELSE flag_result(stripped_string, result_parser(event),
                     run_parser(result_parser(event), stripped_string))

\* Lines 133-141
validate_stripped(event, stripped_string) ==
    IF stripped_string = <<>> THEN Dispatched(Return(<<<<>>, TRUE>>), "none")
    ELSE IF upper(stripped_string) = <<"D", "N", "F">>
    THEN Dispatched(Return(<<<<"D", "N", "F">>, TRUE>>), "none")
    ELSE flag_result(stripped_string, result_parser(event),
                     run_parser(result_parser(event), stripped_string))

validate_time(event, raw_time) == validate_stripped(event, strip(raw_time))

validate_cell(c, clm) ==
    IF clm = NAME_KEY THEN Dispatched(Return(validate_name(c)), "none")
    ELSE IF clm = TIMESTAMP_KEY THEN Dispatched(Return(<<c, TRUE>>), "none")
    ELSE validate_time(clm, c)

(***************************************************************************)
(* Inputs                                                                  *)
(***************************************************************************)
MaxTok == 3

\* Every string made of at most n pieces of T
RECURSIVE Pieces(_, _)
Pieces(T, n) ==
    IF n = 0 THEN {<<>>}
    ELSE LET g == Pieces(T, n - 1) IN g \cup {a \o t : a \in g, t \in T}

Cat(A, B) == {a \o b : a \in A, b \in B}

NamePieces == {<<"j", "o">>, <<" ", "h", "N">>, <<" ">>, <<"\t">>, <<"1">>, <<"é">>}

DnfPieces == {<<"d", "n">>, <<"D", "N">>, <<"d", "N">>, <<"f">>, <<"F">>, <<" ">>, <<"x">>}

TimePieces == {<<"0">>, <<"6", "0">>, <<"1", "0", "0">>, <<"x">>, <<" ">>, <<"-">>,
               <<".">>, <<":">>, <<LongDigits>>}

Fields == {<<>>, <<"0">>, <<"5", "9">>, <<"6", "0">>, <<"1", "0", "0">>, <<"x">>, <<LongDigits>>}

\* field, separator, field, separator, field
DurationShaped ==
    Cat(Cat(Cat(Cat(Fields, {<<":">>, <<".">>}), Fields), {<<>>, <<".">>, <<":">>}), Fields)

Counts == {<<>>, <<"1">>, <<"2">>, <<"1", "0">>, <<"x">>, <<LongDigits>>}

Durations == {<<>>, <<"0", ".", "5">>, <<"6", "0", ".", "0">>, <<"0", ":", "6", "0", ".", "0">>,
              <<"0", ":", "0", ".", "x">>, <<"x">>}

\* count "/" count, blanks, duration, end
MultiblindShaped ==
    Cat(Cat(Cat(Cat(Cat(Counts, {<<"/">>}), Counts), {<<>>, <<" ">>, <<" ", " ">>}), Durations),
        {<<>>, <<"\n">>})

Cells ==
    Pieces(NamePieces, MaxTok) \cup Pieces(DnfPieces, MaxTok) \cup Pieces(TimePieces, MaxTok)
        \cup DurationShaped \cup MultiblindShaped

Columns == {NAME_KEY, TIMESTAMP_KEY, "Multiblind", "FMC", "3x3", "fmc"}

EventColumns == Columns \ {NAME_KEY, TIMESTAMP_KEY}

(***************************************************************************)
(* Calls of the validator's functions on one input                         *)
(***************************************************************************)
EmptySheet == [p \in {} |-> [value |-> <<>>, fill |-> FALSE]]

MainIdle ==
    /\ script = "none"
    /\ headers = <<>> /\ rows = <<>> /\ pc = "idle" /\ idx = 0 /\ col = 0
    /\ ws = EmptySheet /\ saved = EmptySheet

Init ==
    /\ column \in Columns
    /\ cell \in Cells
    /\ call = "none" /\ ret = <<>> /\ exc = "none" /\ parser = "none" /\ first = <<>>
    /\ MainIdle

CallValidateCell ==
    /\ call = "none"
    /\ LET r == validate_cell(cell, column) IN
         /\ call' = "validate_cell"
         /\ ret' = r.ret /\ exc' = r.exc /\ parser' = r.parser
    /\ UNCHANGED <<column, cell, first>>
    /\ UNCHANGED mainVars

\* The validator run again on what it returned
CallValidateCellAgain ==
    /\ call = "validate_cell" /\ exc = "none"
    /\ LET r == validate_cell(ret[1], column) IN
         /\ call' = "validate_cell_again"
         /\ first' = ret /\ cell' = ret[1]
         /\ ret' = r.ret /\ exc' = r.exc /\ parser' = r.parser
    /\ UNCHANGED column
    /\ UNCHANGED mainVars

CallIsTimeDuration ==
    /\ call = "none"
    /\ call' = "is_time_duration"
    /\ ret' = <<is_time_duration(cell)>>
    /\ UNCHANGED <<column, cell, exc, parser, first>>
    /\ UNCHANGED mainVars

CallIsMultiblindResult ==
    /\ call = "none"
    /\ LET r == is_multiblind_result(cell) IN
         /\ call' = "is_multiblind_result"
         /\ ret' = <<r.ret>> /\ exc' = r.exc
    /\ UNCHANGED <<column, cell, parser, first>>
    /\ UNCHANGED mainVars

CallIsFmcResult ==
    /\ call = "none"
    /\ call' = "is_fmc_result"
    /\ ret' = <<is_fmc_result(cell)>>
    /\ UNCHANGED <<column, cell, exc, parser, first>>
    /\ UNCHANGED mainVars

Next ==
    \/ CallValidateCell
    \/ CallValidateCellAgain
    \/ CallIsTimeDuration
    \/ CallIsMultiblindResult
    \/ CallIsFmcResult

Spec == Init /\ [][Next]_vars

(***************************************************************************)
(* main(): one pass over results.csv                                       *)
(***************************************************************************)
MaxRows == 2

HeaderChoices ==
    { <<NAME_KEY, TIMESTAMP_KEY, "3x3">>,
      <<NAME_KEY, TIMESTAMP_KEY, "Multiblind">>,
      <<"name", TIMESTAMP_KEY, "FMC">>,
      <<NAME_KEY, "Timestamp", "3x3">> }

NameData == {<<"j", "o", " ", "h", "N">>, <<"j", "o">>}

StampData == {<<"2", "0", "2", "4">>}

EventData == {<<"0", ".", "5">>, <<"x">>, <<"1", "/", "2", " ", "0", ".", "5">>,
              <<LongDigits, "/", "1", " ", "0", ".", "5">>}

\* One data row of a participant: name, submission time, one event result
RowChoices == {<<n, t, e>> : n \in NameData, t \in StampData, e \in EventData}

RECURSIVE Tables(_)
Tables(n) ==
    IF n = 0 THEN {<<>>}
    ELSE LET g == Tables(n - 1) IN g \cup {Append(t, r) : t \in g, r \in RowChoices}

CallIdle ==
    /\ column = "" /\ cell = <<>> /\ call = "main" /\ ret = <<>> /\ exc = "none"
    /\ parser = "none" /\ first = <<>>

InitMain ==
    /\ script \in {"validator", "sanitizer"}
    /\ headers \in HeaderChoices
    /\ rows \in Tables(MaxRows)
    /\ pc = "start" /\ idx = 0 /\ col = 0
    /\ ws = EmptySheet /\ saved = EmptySheet
    /\ CallIdle

\* list(row.keys()).index(column) + 1
column_index(keys, clm) ==
    CHOOSE k \in 1..Len(keys) : keys[k] = clm /\ \A j \in 1..(k - 1) : keys[j] # clm

\* ws.cell(row=r, column=c, value=v), with the error fill when not ok
write_cell(sheet, r, c, v, ok) ==
    [p \in DOMAIN sheet \cup {<<r, c>>} |->
        IF p = <<r, c>> THEN [value |-> v, fill |-> ~ok] ELSE sheet[p]]

\* ws.append(headers)
append_headers(sheet, keys) ==
    [p \in DOMAIN sheet \cup {<<1, k>> : k \in 1..Len(keys)} |->
        IF p[1] = 1 THEN [value |-> keys[p[2]], fill |-> FALSE] ELSE sheet[p]]

\* Lines 145-155: rows[0] raises IndexError when there is no data row
MainStart ==
    /\ pc = "start"
    /\ IF rows = <<>>
       THEN /\ pc' = "raised" /\ exc' = "IndexError"
            /\ UNCHANGED <<ws, idx, col>>
       ELSE /\ ws' = append_headers(ws, headers)
            /\ idx' = 1 /\ col' = 1
            /\ pc' = IF script = "sanitizer" THEN "prepass" ELSE "loop"
            /\ UNCHANGED exc
    /\ UNCHANGED <<script, headers, rows, saved, column, cell, call, ret, parser, first>>

\* sanitizer.py lines 137-139: every cell is validated once with the
\* results thrown away, before the loop that writes
MainPrepass ==
    /\ pc = "prepass"
    /\ IF \E i \in 1..Len(rows) : \E j \in 1..Len(headers) :
              validate_cell(rows[i][j], headers[j]).exc # "none"
       THEN /\ pc' = "raised"
            /\ exc' = (CHOOSE e \in {validate_cell(rows[i][j], headers[j]).exc :
                                      i \in 1..Len(rows), j \in 1..Len(headers)} : e # "none")
       ELSE pc' = "loop" /\ UNCHANGED exc
    /\ UNCHANGED <<script, headers, rows, idx, col, ws, saved>>
    /\ UNCHANGED <<column, cell, call, ret, parser, first>>

\* Lines 157-165, one cell: spreadsheet row idx + 1 holds data row idx
MainCell ==
    /\ pc = "loop" /\ idx <= Len(rows)
    /\ LET r == validate_cell(rows[idx][col], headers[col]) IN
         IF r.exc # "none"
         THEN /\ pc' = "raised" /\ exc' = r.exc
              /\ UNCHANGED <<ws, idx, col>>
         ELSE /\ ws' = write_cell(ws, idx + 1, column_index(headers, headers[col]),
                                  r.ret[1], r.ret[2])
              /\ IF col < Len(headers)
                 THEN col' = col + 1 /\ idx' = idx
                 ELSE col' = 1 /\ idx' = idx + 1
              /\ UNCHANGED <<pc, exc>>
    /\ UNCHANGED <<script, headers, rows, saved, column, cell, call, ret, parser, first>>

\* Line 167
MainSave ==
    /\ pc = "loop" /\ idx > Len(rows)
    /\ saved' = ws
    /\ pc' = "done"
    /\ UNCHANGED <<script, headers, rows, idx, col, ws, column, cell, call, ret, exc, parser, first>>

NextMain ==
    \/ MainStart
    \/ MainPrepass
    \/ MainCell
    \/ MainSave

SpecMain == InitMain /\ [][NextMain]_vars

(***************************************************************************)
(* The statements of the specification, said without the code's own       *)
(* string functions                                                        *)
(***************************************************************************)
Blank(s) == \A i \in 1..Len(s) : s[i] \in Whitespace

\* s without its leading and trailing whitespace
Trimmed(s) ==
    IF Blank(s) THEN <<>>
    ELSE LET a == CHOOSE i \in 1..Len(s) : s[i] \notin Whitespace /\ Blank(SubSeq(s, 1, i - 1))
             b == CHOOSE i \in 1..Len(s) : s[i] \notin Whitespace /\ Blank(SubSeq(s, i + 1, Len(s)))
         IN  SubSeq(s, a, b)

\* The positions where a token (a maximal run without whitespace) starts
TokenStarts(t) ==
    {a \in 1..Len(t) : t[a] \notin Whitespace /\ (a = 1 \/ t[a - 1] \in Whitespace)}

TokenEnd(t, a) ==
    CHOOSE b \in a..Len(t) :
        /\ \A k \in a..b : t[k] \notin Whitespace
        /\ (b = Len(t) \/ t[b + 1] \in Whitespace)

TitleCased(w) == [i \in 1..Len(w) |-> IF i = 1 THEN upper_char(w[i]) ELSE lower_char(w[i])]

\* The tokens that start in S, title-cased, in order, one space between them
RECURSIVE TitleJoined(_, _)
TitleJoined(t, S) ==
    IF S = {} THEN <<>>
    ELSE LET a == CHOOSE x \in S : \A y \in S : x <= y
             w == TitleCased(SubSeq(t, a, TokenEnd(t, a)))
         IN  IF S = {a} THEN w ELSE w \o <<" ">> \o TitleJoined(t, S \ {a})

OnlyEnglish(t) == \A i \in 1..Len(t) : t[i] \in EnglishLetters \/ t[i] \in Whitespace

IsDnf(t) ==
    /\ Len(t) = 3
    /\ t[1] \in {"d", "D"} /\ t[2] \in {"n", "N"} /\ t[3] \in {"f", "F"}

\* C2: for the name column, the validator returns the title-cased tokens of
\* the trimmed cell joined by single spaces, and true, exactly when the
\* trimmed cell holds only English letters and whitespace and has at least
\* two tokens; otherwise it returns the trimmed cell unchanged, and false.
C2_NameGrammar ==
    (call = "validate_cell" /\ column = NAME_KEY) =>
        LET t == Trimmed(cell) IN
        /\ exc = "none"
        /\ IF OnlyEnglish(t) /\ Cardinality(TokenStarts(t)) >= 2
           THEN ret = <<TitleJoined(t, TokenStarts(t)), TRUE>>
           ELSE ret = <<t, FALSE>>

C2_Witness ==
    /\ call = "validate_cell" /\ column = NAME_KEY
    /\ cell = <<"j", "o", "\t", " ", "h", "N">>
    /\ ret = <<(<<"J", "o", " ", "H", "n">>), TRUE>>

\* C3: for an event column, a cell that is empty or only whitespace gives
\* ("", true) and no grammar is run on it; on their own the digit-count and
\* the composite grammar reject the empty string.
C3_EmptyBeforeGrammar ==
    /\ (call = "validate_cell" /\ column \in EventColumns /\ Blank(cell)) =>
           (exc = "none" /\ ret = <<(<<>>), TRUE>> /\ parser = "none")
    /\ (call = "is_fmc_result" /\ cell = <<>>) => ret = <<FALSE>>
    /\ (call = "is_multiblind_result" /\ cell = <<>>) => (exc = "none" /\ ret = <<FALSE>>)

C3_Witness ==
    /\ call = "validate_cell" /\ column = "FMC"
    /\ cell = <<" ", "\t">>
    /\ ret = <<(<<>>), TRUE>> /\ parser = "none"

\* C4: for an event column, a cell whose trimmed content is "DNF" in any
\* letter case gives exactly ("DNF", true), and no grammar is run on it.
C4_DnfAnyCase ==
    (call = "validate_cell" /\ column \in EventColumns /\ IsDnf(Trimmed(cell))) =>
        (exc = "none" /\ ret = <<(<<"D", "N", "F">>), TRUE>> /\ parser = "none")

C4_Witness ==
    /\ call = "validate_cell" /\ column = "Multiblind"
    /\ cell = <<" ", "d", "N", "f">>
    /\ ret = <<(<<"D", "N", "F">>), TRUE>> /\ parser = "none"

\* C9: when the validator accepted a name and returned n, the validator run
\* on n for the name column returns (n, true) again.
C9_NameIdempotent ==
    (call = "validate_cell_again" /\ column = NAME_KEY /\ first[2]) =>
        (exc = "none" /\ ret = <<first[1], TRUE>>)

C9_Witness ==
    /\ call = "validate_cell_again" /\ column = NAME_KEY
    /\ first = <<(<<"J", "o", " ", "H", "n">>), TRUE>>
    /\ ret = first

\* A field of a duration reads as an integer within [lo, hi)
FieldIn(f, lo, hi) == ~int(f).err /\ lo <= int(f).val /\ int(f).val < hi

\* The rule of section 4.2: minutes ":" seconds "." milliseconds, or
\* minutes "." milliseconds with seconds 00
ParsesAsDuration(s) ==
    IF contains(s, ":")
    THEN \E i \in 1..Len(s) : \E j \in (i + 1)..Len(s) :
            /\ s[i] = ":" /\ s[j] = "."
            /\ FieldIn(SubSeq(s, 1, i - 1), 0, 60)
            /\ FieldIn(SubSeq(s, i + 1, j - 1), 0, 60)
            /\ FieldIn(SubSeq(s, j + 1, Len(s)), 0, 100)
    ELSE \E j \in 1..Len(s) :
            /\ s[j] = "."
            /\ FieldIn(SubSeq(s, 1, j - 1), 0, 60)
            /\ FieldIn(SubSeq(s, j + 1, Len(s)), 0, 100)

\* C1: on a non-empty string the plain duration grammar answers true
\* exactly when the string parses by the rule of section 4.2 with minutes
\* and seconds in [0, 60) and milliseconds in [0, 100).
C1_DurationGrammar ==
    (call = "is_time_duration" /\ cell # <<>>) => (ret = <<ParsesAsDuration(cell)>>)

\* <digits>/<digits> <non-space run>, solved not above attempted, and the
\* run accepted by the plain duration grammar
CompositeForm(s) ==
    \E i \in 2..Len(s) : \E j \in (i + 2)..(Len(s) - 1) :
        /\ s[i] = "/" /\ s[j] = " "
        /\ \A k \in (1..(i - 1)) \cup ((i + 1)..(j - 1)) : s[k] \in Digits
        /\ \A k \in (j + 1)..Len(s) : s[k] \notin Whitespace
        /\ ~int(SubSeq(s, 1, i - 1)).err /\ ~int(SubSeq(s, i + 1, j - 1)).err
        /\ int(SubSeq(s, 1, i - 1)).val <= int(SubSeq(s, i + 1, j - 1)).val
        /\ is_time_duration(SubSeq(s, j + 1, Len(s)))

\* C5: the composite grammar answers true exactly when the string has the
\* form <digits>/<digits> <non-space run> with solved not above attempted
\* and a run the plain duration grammar accepts; it answers on every string.
C5_CompositeGrammar ==
    (call = "is_multiblind_result") => (exc = "none" /\ ret = <<CompositeForm(cell)>>)

\* C8: the column validator returns on every column and cell; no exception
\* escapes it.
C8_NeverRaises ==
    (call = "validate_cell") => (exc = "none" /\ Len(ret) = 2 /\ ret[2] \in BOOLEAN)

\* The grammar of an event column, by its exact name
Grammar(event, t) ==
    IF event = "Multiblind" THEN is_multiblind_result(t).ret
    ELSE IF event = "FMC" THEN is_fmc_result(t)
    ELSE is_time_duration(t)

\* C10: for an event column and a cell whose trimmed content t is neither
\* empty nor a spelling of DNF, the validator returns (t, g(t)), g being
\* the composite grammar for Multiblind, the digit-count grammar for FMC
\* and the plain duration grammar for every other name.
C10_GrammarByName ==
    (/\ call = "validate_cell" /\ column \in EventColumns
     /\ Trimmed(cell) # <<>> /\ ~IsDnf(Trimmed(cell))) =>
        (exc = "none" /\ ret = <<Trimmed(cell), Grammar(column, Trimmed(cell))>>)

\* main() is over: it saved the workbook or an exception ended it
Finished == pc \in {"done", "raised"}

\* C6: when main is over, output.xlsx holds, for every data row i and
\* column j, at (i + 1, j) the validated value of that cell, filled as an
\* error exactly when the cell is invalid.
C6_EveryCellWritten ==
    Finished =>
        \A i \in 1..Len(rows) : \A j \in 1..Len(headers) :
            /\ <<i + 1, j>> \in DOMAIN saved
            /\ validate_cell(rows[i][j], headers[j]).exc = "none"
            /\ saved[<<i + 1, j>>].value = validate_cell(rows[i][j], headers[j]).ret[1]
            /\ saved[<<i + 1, j>>].fill = ~validate_cell(rows[i][j], headers[j]).ret[2]

\* The header has no column named Name, or no timestamp column
LacksDistinguished(keys) ==
    \/ \A k \in 1..Len(keys) : keys[k] # NAME_KEY
    \/ \A k \in 1..Len(keys) : keys[k] # TIMESTAMP_KEY

\* C7: with a header that lacks a distinguished column, main aborts: it
\* writes no validated data cell and saves no workbook.
C7_FailsLoudly ==
    LacksDistinguished(headers) =>
        (pc # "done" /\ \A p \in DOMAIN ws : p[1] = 1)

====
